---- MODULE Spec2Model ----
(***************************************************************************)
(* Model of util/stopwaiter/stopwaiter.go: the StopWaiterSafe lifecycle    *)
(* controller, the goroutines it supervises and the combinators built on   *)
(* LaunchThreadSafe.  Every action is one atomic step of the Go code: a    *)
(* critical section of s.mutex, one sync.WaitGroup call, one channel       *)
(* operation or one select.                                                *)
(***************************************************************************)
EXTENDS Integers, Sequences, FiniteSets, Bags

\* ------------------------------------------------------------- bounds
\* Total number of API calls made by all callers in one behaviour.
MaxCalls == 3

\* Goroutines calling the API concurrently.
Callers == {"c1", "c2"}

\* The (ctx, parent) pairs Start may be called with: a parent context and
\* the reflect.TypeOf(parent).String() of the owner.
Owners == { [ctx |-> "bg",  typ |-> <<"*", "S">>],
            [ctx |-> "req", typ |-> <<"[", "]", "*", "T">>] }

ParentCtxs == {o.ctx : o \in Owners}

\* context.Background() is never cancelled; a request context may be.
Cancellable == {"req"}

\* Largest reading of the clock.
MaxTime == 3

\* Number of values sent on the input channel of the rate limiters.
MaxArrivals == 3

\* Number of ChanRateLimiter calls in one behaviour.
MaxLimiters == 1

\* Largest block number a node is created at.
MaxBlock == 5

\* Largest logQueryRangeSize; 0 means one query for the whole interval.
MaxRangeSize == 2

\* Durations maxRateCallback returns.
Rates == {1, 2}

\* Values sent on a trigger channel; 0 is the zero value of T.
TriggerVals == {1, 2}

\* Intervals a CallIteratively callback returns (0, or a positive delay).
Intervals == {0, 1}

ErrNil == "nil"
ErrNotStarted == "not started"
ErrStartAfterStart == "start after start"
ErrStopped == "stopped"
ErrFn == "fn error"
ErrRPC == "rpc error"

VARIABLES
    started,      \* s.started
    stopped,      \* s.stopped
    ctx,          \* s.ctx: id of the scope, 0 = nil
    parentCtx,    \* s.parentCtx: "nil" or a parent context
    stopFunc,     \* s.stopFunc: id of the scope it cancels, 0 = nil
    name,         \* s.name
    waitChan,     \* s.waitChan: id of the drain channel, 0 = nil
    wg,           \* s.wg counter
    scopes,       \* contexts made by context.WithCancel(parentCtx), by id
    cancelled,    \* ids of the scopes whose cancel function was invoked
    cancelCalls,  \* number of invocations of s.stopFunc
    parentDone,   \* parent contexts cancelled by their owner
    watchers,     \* goroutines of GetWaitChannel; index = drain channel id
    tasks,        \* bag of the live goroutines of LaunchThreadSafe
    promises,     \* containers.Promise values made by LaunchPromiseThread
    trigClosed,   \* the trigger channel was closed by its owner
    limiters,     \* output channels and loop locals of ChanRateLimiter, by id
    now,          \* time.Now(), as an integer clock
    lookup,       \* locals of a LookupNodeChildren call
    callers,      \* per calling goroutine: position and locals
    ncalls        \* API calls made so far

vars == <<started, stopped, ctx, parentCtx, stopFunc, name, waitChan, wg,
          scopes, cancelled, cancelCalls, parentDone, watchers, tasks,
          promises, trigClosed, limiters, now, lookup, callers, ncalls>>

ctlVars == <<started, stopped, ctx, parentCtx, stopFunc, name, waitChan, wg>>
scopeVars == <<scopes, cancelled, cancelCalls>>
limVars == <<limiters, now>>

\* ------------------------------------------------------------ helpers
\* strings.Replace(s, "*", "", 1): drop the first asterisk, if any.
RECURSIVE RemoveFirstStar(_)
RemoveFirstStar(s) ==
    IF s = <<>> THEN <<>>
    ELSE IF Head(s) = "*" THEN Tail(s)
    ELSE <<Head(s)>> \o RemoveFirstStar(Tail(s))

getParentName(typ) == RemoveFirstStar(typ)

\* ctx.Err() != nil / <-ctx.Done() ready, for a scope made by Start.
Cancelled(c) ==
    /\ c # 0
    /\ \/ c \in cancelled
       \/ scopes[c].parent \in parentDone

\* The inner context of a promise: cancelled by its own cancel function or
\* through the launcher's scope it derives from.
InnerCancelled(pr) ==
    \/ promises[pr].cancels > 0
    \/ Cancelled(promises[pr].outer)

Idle == [pc |-> "idle", op |-> "none", ret |-> "none", ctx |-> 0,
         kind |-> "none", prom |-> 0, wc |-> 0, via |-> "none",
         enStarted |-> FALSE, enStopped |-> FALSE, warned |-> FALSE]

\* A call of operation o begins: its locals, with the state of the controller
\* at entry and the StopWaiter method the call comes through, if any.
Begin(p, o) ==
    [Idle EXCEPT !.op = o, !.enStarted = started, !.enStopped = stopped,
                 !.via = callers[p].via]

CanCall(p) == callers[p].pc = "idle" /\ ncalls < MaxCalls

\* The call has computed its result r; the caller holds it until it goes on.
Ret(c, r) == [c EXCEPT !.pc = "ret", !.ret = r]

\* Variant of getContext without the started check.
getContextNoCheck == [ctx |-> ctx, err |-> ErrNil]

\* s.getContext(), with the mutex held.
getContext == IF started THEN [ctx |-> ctx, err |-> ErrNil]
              ELSE [ctx |-> 0, err |-> ErrNotStarted]

\* s.getParentContext(), with the mutex held.
getParentContext == IF started THEN [ctx |-> parentCtx, err |-> ErrNil]
                    ELSE [ctx |-> "nil", err |-> ErrNotStarted]

\* No LookupNodeChildren call has been made.
NoLookup == [pc |-> "idle", size |-> 0, from0 |-> 0, to0 |-> 0,
             fromBlock |-> 0, toBlock |-> 0, queries |-> <<>>, err |-> ErrNil]

Init ==
    /\ started = FALSE
    /\ stopped = FALSE
    /\ ctx = 0
    /\ parentCtx = "nil"
    /\ stopFunc = 0
    /\ name = <<>>
    /\ waitChan = 0
    /\ wg = 0
    /\ scopes = <<>>
    /\ cancelled = {}
    /\ cancelCalls = 0
    /\ parentDone = {}
    /\ watchers = <<>>
    /\ tasks = EmptyBag
    /\ promises = <<>>
    /\ trigClosed = FALSE
    /\ limiters = <<>>
    /\ now = 0
    /\ lookup = NoLookup
    /\ callers = [p \in Callers |-> Idle]
    /\ ncalls = 0

\* ------------------------------------------------- controller operations
\* Variant of Start without the start-after-start check.
StartNoGuard(p, o) ==
    /\ CanCall(p)
    /\ ncalls' = ncalls + 1
    /\ started' = TRUE
    /\ name' = getParentName(o.typ)
    /\ parentCtx' = o.ctx
    /\ scopes' = Append(scopes, [parent |-> o.ctx])
    /\ ctx' = Len(scopes) + 1
    /\ stopFunc' = Len(scopes) + 1
    /\ IF stopped
       THEN /\ cancelled' = cancelled \cup {Len(scopes) + 1}
            /\ cancelCalls' = cancelCalls + 1
       ELSE UNCHANGED <<cancelled, cancelCalls>>
    /\ callers' = [callers EXCEPT ![p] = Ret(Begin(p, "Start"), ErrNil)]
    /\ UNCHANGED <<stopped, waitChan, wg>>
    /\ UNCHANGED <<parentDone, watchers, tasks, promises, trigClosed, limVars, lookup>>

\* Variant of Start that does not cancel the new scope when already stopped.
StartNoCancel(p, o) ==
    /\ CanCall(p)
    /\ ncalls' = ncalls + 1
    /\ IF started
       THEN /\ callers' = [callers EXCEPT ![p] = Ret(Begin(p, "Start"), ErrStartAfterStart)]
            /\ UNCHANGED <<ctlVars, scopeVars>>
       ELSE /\ started' = TRUE
            /\ name' = getParentName(o.typ)
            /\ parentCtx' = o.ctx
            /\ scopes' = Append(scopes, [parent |-> o.ctx])
            /\ ctx' = Len(scopes) + 1
            /\ stopFunc' = Len(scopes) + 1
            /\ callers' = [callers EXCEPT ![p] = Ret(Begin(p, "Start"), ErrNil)]
            /\ UNCHANGED <<stopped, waitChan, wg, cancelled, cancelCalls>>
    /\ UNCHANGED <<parentDone, watchers, tasks, promises, trigClosed, limVars, lookup>>

Start(p, o) ==
    /\ CanCall(p)
    /\ ncalls' = ncalls + 1
    /\ IF started
       THEN /\ callers' = [callers EXCEPT ![p] = Ret(Begin(p, "Start"), ErrStartAfterStart)]
            /\ UNCHANGED <<ctlVars, scopeVars>>
       ELSE /\ started' = TRUE
            /\ name' = getParentName(o.typ)
            /\ parentCtx' = o.ctx
            /\ scopes' = Append(scopes, [parent |-> o.ctx])
            /\ ctx' = Len(scopes) + 1
            /\ stopFunc' = Len(scopes) + 1
            /\ IF stopped
               THEN /\ cancelled' = cancelled \cup {Len(scopes) + 1}
                    /\ cancelCalls' = cancelCalls + 1
               ELSE UNCHANGED <<cancelled, cancelCalls>>
            /\ callers' = [callers EXCEPT ![p] = Ret(Begin(p, "Start"), ErrNil)]
            /\ UNCHANGED <<stopped, waitChan, wg>>
    /\ UNCHANGED <<parentDone, watchers, tasks, promises, trigClosed, limVars, lookup>>

\* Variant of StopOnly that calls stopFunc on every call once started.
DoStopOnlyAlwaysCancels ==
    /\ IF started
       THEN /\ cancelled' = cancelled \cup {stopFunc}
            /\ cancelCalls' = cancelCalls + 1
       ELSE UNCHANGED <<cancelled, cancelCalls>>
    /\ stopped' = TRUE
    /\ UNCHANGED <<started, ctx, parentCtx, stopFunc, name, waitChan, wg, scopes>>

\* The body of StopOnly, one critical section.
DoStopOnly ==
    /\ IF started /\ ~stopped
       THEN /\ cancelled' = cancelled \cup {stopFunc}
            /\ cancelCalls' = cancelCalls + 1
       ELSE UNCHANGED <<cancelled, cancelCalls>>
    /\ stopped' = TRUE
    /\ UNCHANGED <<started, ctx, parentCtx, stopFunc, name, waitChan, wg, scopes>>

StopOnly(p) ==
    /\ CanCall(p)
    /\ ncalls' = ncalls + 1
    /\ DoStopOnly
    /\ callers' = [callers EXCEPT ![p] = Ret(Begin(p, "StopOnly"), ErrNil)]
    /\ UNCHANGED <<parentDone, watchers, tasks, promises, trigClosed, limVars, lookup>>

GetContextSafe(p) ==
    /\ CanCall(p)
    /\ ncalls' = ncalls + 1
    /\ callers' = [callers EXCEPT ![p] =
            Ret([Begin(p, "GetContextSafe") EXCEPT !.ctx = getContext.ctx],
                getContext.err)]
    /\ UNCHANGED <<ctlVars, scopeVars, parentDone, watchers, tasks, promises, trigClosed, limVars, lookup>>

GetParentContextSafe(p) ==
    /\ CanCall(p)
    /\ ncalls' = ncalls + 1
    /\ callers' = [callers EXCEPT ![p] =
            Ret(Begin(p, "GetParentContextSafe"), getParentContext.err)]
    /\ UNCHANGED <<ctlVars, scopeVars, parentDone, watchers, tasks, promises, trigClosed, limVars, lookup>>

\* The body of GetWaitChannel, one critical section, on caller record c.
DoGetWaitChannel(p, c) ==
    IF waitChan = 0
    THEN IF getContext.err # ErrNil
         THEN /\ callers' = [callers EXCEPT ![p] = Ret(c, getContext.err)]
              /\ UNCHANGED <<waitChan, watchers>>
         ELSE /\ watchers' = Append(watchers,
                     [ctx |-> getContext.ctx, pc |-> "ctxDone", closes |-> 0])
              /\ waitChan' = Len(watchers) + 1
              /\ callers' = [callers EXCEPT ![p] =
                     [c EXCEPT !.wc = Len(watchers) + 1, !.ret = ErrNil,
                               !.pc = IF c.op = "StopAndWait" THEN "sw_select" ELSE "ret"]]
    ELSE /\ callers' = [callers EXCEPT ![p] =
                [c EXCEPT !.wc = waitChan, !.ret = ErrNil,
                          !.pc = IF c.op = "StopAndWait" THEN "sw_select" ELSE "ret"]]
         /\ UNCHANGED <<waitChan, watchers>>

GetWaitChannel(p) ==
    /\ CanCall(p)
    /\ ncalls' = ncalls + 1
    /\ DoGetWaitChannel(p, Begin(p, "GetWaitChannel"))
    /\ UNCHANGED <<started, stopped, ctx, parentCtx, stopFunc, name, wg>>
    /\ UNCHANGED <<scopeVars, parentDone, tasks, promises, trigClosed, limVars, lookup>>

\* ---- the drain watcher goroutine of GetWaitChannel
WatcherCtxDone(w) ==
    /\ watchers[w].pc = "ctxDone"
    /\ Cancelled(watchers[w].ctx)
    /\ watchers' = [watchers EXCEPT ![w].pc = "wgWait"]
    /\ UNCHANGED <<ctlVars, scopeVars, parentDone, tasks, promises, trigClosed, limVars, lookup, callers, ncalls>>

WatcherWgWait(w) ==
    /\ watchers[w].pc = "wgWait"
    /\ wg = 0
    /\ watchers' = [watchers EXCEPT ![w].pc = "close"]
    /\ UNCHANGED <<ctlVars, scopeVars, parentDone, tasks, promises, trigClosed, limVars, lookup, callers, ncalls>>

WatcherClose(w) ==
    /\ watchers[w].pc = "close"
    /\ watchers' = [watchers EXCEPT ![w].pc = "exited", ![w].closes = @ + 1]
    /\ UNCHANGED <<ctlVars, scopeVars, parentDone, tasks, promises, trigClosed, limVars, lookup, callers, ncalls>>

ChanClosed(ch) == ch # 0 /\ watchers[ch].closes > 0

\* ---- stopAndWaitImpl
StopAndWait(p) ==
    /\ CanCall(p)
    /\ ncalls' = ncalls + 1
    /\ DoStopOnly
    /\ callers' = [callers EXCEPT ![p] = [Begin(p, "StopAndWait") EXCEPT !.pc = "sw_started"]]
    /\ UNCHANGED <<parentDone, watchers, tasks, promises, trigClosed, limVars, lookup>>

StopAndWaitStarted(p) ==
    /\ callers[p].pc = "sw_started"
    /\ callers' = [callers EXCEPT ![p] =
            IF ~started THEN Ret(@, ErrNil) ELSE [@ EXCEPT !.pc = "sw_getwc"]]
    /\ UNCHANGED <<ctlVars, scopeVars, parentDone, watchers, tasks, promises, trigClosed, limVars, lookup, ncalls>>

StopAndWaitGetWaitChannel(p) ==
    /\ callers[p].pc = "sw_getwc"
    /\ DoGetWaitChannel(p, callers[p])
    /\ UNCHANGED <<started, stopped, ctx, parentCtx, stopFunc, name, wg>>
    /\ UNCHANGED <<scopeVars, parentDone, tasks, promises, trigClosed, limVars, lookup, ncalls>>

\* Variant of the timer case that treats the warning timeout as a deadline.
StopAndWaitTimeoutGivesUp(p) ==
    /\ callers[p].pc = "sw_select"
    /\ callers' = [callers EXCEPT ![p] = Ret([@ EXCEPT !.warned = TRUE], "timeout")]
    /\ UNCHANGED <<ctlVars, scopeVars, parentDone, watchers, tasks, promises, trigClosed, limVars, lookup, ncalls>>

\* select: case <-timer.C (log the warning, go on to the second wait).
StopAndWaitTimeout(p) ==
    /\ callers[p].pc = "sw_select"
    /\ callers' = [callers EXCEPT ![p] = [@ EXCEPT !.pc = "sw_wait", !.warned = TRUE]]
    /\ UNCHANGED <<ctlVars, scopeVars, parentDone, watchers, tasks, promises, trigClosed, limVars, lookup, ncalls>>

\* select: case <-waitChan, and the final <-waitChan after the warning.
StopAndWaitDrained(p) ==
    /\ callers[p].pc \in {"sw_select", "sw_wait"}
    /\ ChanClosed(callers[p].wc)
    /\ callers' = [callers EXCEPT ![p] = Ret(@, ErrNil)]
    /\ UNCHANGED <<ctlVars, scopeVars, parentDone, watchers, tasks, promises, trigClosed, limVars, lookup, ncalls>>

\* The caller takes the result and is free to make its next call.
Return(p) ==
    /\ \/ callers[p].pc = "ret" /\ callers[p].via = "none"
       \/ callers[p].pc = "wret"
    /\ callers' = [callers EXCEPT ![p] = Idle]
    /\ UNCHANGED <<ctlVars, scopeVars, parentDone, watchers, tasks, promises, trigClosed, limVars, lookup, ncalls>>

\* ------------------------------------------------------ LaunchThreadSafe
\* A goroutine started by LaunchThreadSafe for the function of kind k; pr is
\* the object the function captures (a promise, a rate limiter's channel).
NewTask(k, c, pr) ==
    [kind |-> k, ctx |-> c, prom |-> pr, val |-> 0,
     pc |-> IF k = "trig" THEN "check"
            ELSE IF k = "limiter" THEN "now"
            ELSE "foo"]

\* LaunchThreadSafe returns err to its caller: the API caller, or
\* LaunchPromiseThread or ChanRateLimiter, which go on with the result.
LaunchReturn(c, err) ==
    IF c.op = "LaunchPromiseThread"
    THEN [c EXCEPT !.pc = "lp_ret", !.ret = err]
    ELSE IF c.op = "ChanRateLimiter"
    THEN [c EXCEPT !.pc = "rl_ret", !.ret = err]
    ELSE Ret(c, err)

\* ctx, err := s.GetContextSafe(); if err != nil { return err }
LaunchGetContext(p, c) ==
    /\ callers' = [callers EXCEPT ![p] =
            IF getContext.err # ErrNil
            THEN LaunchReturn(c, getContext.err)
            ELSE [c EXCEPT !.pc = "lt_stopped", !.ctx = getContext.ctx]]
    /\ UNCHANGED <<ctlVars, scopeVars, parentDone, watchers, tasks, promises, trigClosed, limVars, lookup>>

\* The first step of a call of LaunchThreadSafe with a function of kind k.
LaunchBegin(p, k, o) ==
    /\ CanCall(p)
    /\ ncalls' = ncalls + 1
    /\ LaunchGetContext(p, [Begin(p, o) EXCEPT !.kind = k])

LaunchThreadSafe(p) == LaunchBegin(p, "thread", "LaunchThreadSafe")

CallIterativelySafe(p) == LaunchBegin(p, "iter", "CallIterativelySafe")

CallIterativelyWith(p) == LaunchBegin(p, "iterWith", "CallIterativelyWith")

CallWhenTriggeredWith(p) == LaunchBegin(p, "trig", "CallWhenTriggeredWith")

\* Variant of the Stopped() step that launches whatever s.stopped is.
LaunchStoppedNoCheck(p) ==
    /\ callers[p].pc = "lt_stopped"
    /\ callers' = [callers EXCEPT ![p].pc = "lt_add"]
    /\ UNCHANGED <<ctlVars, scopeVars, parentDone, watchers, tasks, promises, trigClosed, limVars, lookup, ncalls>>

\* if s.Stopped() { return nil }
LaunchStopped(p) ==
    /\ callers[p].pc = "lt_stopped"
    /\ callers' = [callers EXCEPT ![p] =
            IF stopped THEN LaunchReturn(@, ErrNil) ELSE [@ EXCEPT !.pc = "lt_add"]]
    /\ UNCHANGED <<ctlVars, scopeVars, parentDone, watchers, tasks, promises, trigClosed, limVars, lookup, ncalls>>

\* s.wg.Add(1)
LaunchAdd(p) ==
    /\ callers[p].pc = "lt_add"
    /\ wg' = wg + 1
    /\ callers' = [callers EXCEPT ![p].pc = "lt_go"]
    /\ UNCHANGED <<started, stopped, ctx, parentCtx, stopFunc, name, waitChan>>
    /\ UNCHANGED <<scopeVars, parentDone, watchers, tasks, promises, trigClosed, limVars, lookup, ncalls>>

\* go func() { foo(ctx); s.wg.Done() }(); return nil
LaunchGo(p) ==
    /\ callers[p].pc = "lt_go"
    /\ tasks' = tasks (+) SetToBag({NewTask(callers[p].kind, callers[p].ctx, callers[p].prom)})
    /\ callers' = [callers EXCEPT ![p] = LaunchReturn(@, ErrNil)]
    /\ UNCHANGED <<ctlVars, scopeVars, parentDone, watchers, promises, trigClosed, limVars, lookup, ncalls>>

\* ------------------------------------------------------ supervised tasks
\* The supervised function has not returned yet.
Running(t) == t.pc # "done"

\* The function of the goroutine returns; s.wg.Done() is next.
Finish(t) == [t EXCEPT !.pc = "done", !.val = 0]

\* Goroutine t goes on as t2.
Move(t, t2) == (tasks (-) SetToBag({t})) (+) SetToBag({t2})

taskFrame == <<ctlVars, scopeVars, parentDone, watchers, promises, trigClosed, limVars, lookup, callers, ncalls>>

\* A plain function given to LaunchThreadSafe returns (it may do so at any
\* time, whether or not it looks at its context).
ThreadFooReturn(t) ==
    /\ t.kind = "thread"
    /\ t.pc = "foo"
    /\ tasks' = Move(t, Finish(t))
    /\ UNCHANGED taskFrame

\* foo ends the goroutine without returning (runtime.Goexit(), or a panic
\* recovered further up): s.wg.Done() is not deferred and does not run.
ThreadFooGoexit(t) ==
    /\ t.kind = "thread"
    /\ t.pc = "foo"
    /\ tasks' = tasks (-) SetToBag({t})
    /\ UNCHANGED taskFrame

\* s.wg.Done()
WgDone(t) ==
    /\ t.pc = "done"
    /\ wg' = wg - 1
    /\ tasks' = tasks (-) SetToBag({t})
    /\ UNCHANGED <<started, stopped, ctx, parentCtx, stopFunc, name, waitChan>>
    /\ UNCHANGED <<scopeVars, parentDone, watchers, promises, trigClosed, limVars, lookup, callers, ncalls>>

\* Variant of the loop without the ctx.Err() check after foo returns.
IterFooReturnNoErrCheck(t, interval) ==
    /\ t.kind \in {"iter", "iterWith"}
    /\ t.pc = "foo"
    /\ tasks' = Move(t,
            IF interval = 0 THEN [t EXCEPT !.val = 0]
            ELSE [t EXCEPT !.val = 0, !.pc = "select"])
    /\ UNCHANGED taskFrame

\* Variant of the loop that does not reset val to defaultVal.
IterFooReturnKeepsVal(t, interval) ==
    /\ t.kind \in {"iter", "iterWith"}
    /\ t.pc = "foo"
    /\ tasks' = Move(t,
            IF Cancelled(t.ctx) THEN Finish(t)
            ELSE IF interval = 0 THEN t
            ELSE [t EXCEPT !.pc = "select"])
    /\ UNCHANGED taskFrame

\* CallIterativelySafe / CallIterativelyWith: foo returns interval; the loop
\* checks ctx.Err(), resets val, and either continues or arms the timer
\* (timer := time.NewTimer(interval)) and goes on to the select.
IterFooReturn(t, interval) ==
    /\ t.kind \in {"iter", "iterWith"}
    /\ t.pc = "foo"
    /\ tasks' = Move(t,
            IF Cancelled(t.ctx) THEN Finish(t)
            ELSE IF interval = 0 THEN [t EXCEPT !.val = 0]
            ELSE [t EXCEPT !.val = 0, !.pc = "select"])
    /\ UNCHANGED taskFrame

\* The timer fires before the goroutine has executed the select: timer.C is
\* ready when the select is evaluated.
IterTimerFires(t) ==
    /\ t.kind \in {"iter", "iterWith"}
    /\ t.pc = "select"
    /\ tasks' = Move(t, [t EXCEPT !.pc = "selectFired"])
    /\ UNCHANGED taskFrame

\* Neither <-ctx.Done() nor a receive from the closed trigger channel is ready.
NoneReady(t) ==
    /\ ~Cancelled(t.ctx)
    /\ t.kind = "iterWith" => ~trigClosed

\* The select finds no case ready and blocks; the first case that becomes
\* ready afterwards is the one it takes.
IterPark(t) ==
    /\ t.kind \in {"iter", "iterWith"}
    /\ t.pc = "select"
    /\ NoneReady(t)
    /\ tasks' = Move(t, [t EXCEPT !.pc = "parked"])
    /\ UNCHANGED taskFrame

\* The timer or a sender can still be what the select takes: when the
\* select is evaluated any ready case may be chosen; a blocked select has
\* taken the case that became ready first.
SelectOpen(t) ==
    \/ t.pc \in {"select", "selectFired"}
    \/ t.pc = "parked" /\ NoneReady(t)

\* select: case <-ctx.Done(): timer.Stop(); return
IterCtxDone(t) ==
    /\ t.kind \in {"iter", "iterWith"}
    /\ t.pc \in {"select", "selectFired", "parked"}
    /\ Cancelled(t.ctx)
    /\ tasks' = Move(t, Finish(t))
    /\ UNCHANGED taskFrame

\* select: case <-timer.C, chosen by a select that finds the timer fired, or
\* waking a blocked select.
IterTimer(t) ==
    /\ t.kind \in {"iter", "iterWith"}
    /\ \/ t.pc = "selectFired"
       \/ t.pc = "parked" /\ NoneReady(t)
    /\ tasks' = Move(t, [t EXCEPT !.pc = "foo"])
    /\ UNCHANGED taskFrame

\* select: case val, ok = <-triggerChan, a sender offering v.
IterTrigger(t, v) ==
    /\ t.kind = "iterWith"
    /\ SelectOpen(t)
    /\ ~trigClosed
    /\ tasks' = Move(t, [t EXCEPT !.val = v, !.pc = "foo"])
    /\ UNCHANGED taskFrame

\* select: case val, ok = <-triggerChan on the closed channel: !ok, return.
IterTriggerClosed(t) ==
    /\ t.kind = "iterWith"
    /\ t.pc \in {"select", "selectFired", "parked"}
    /\ trigClosed
    /\ tasks' = Move(t, Finish(t))
    /\ UNCHANGED taskFrame

\* CallWhenTriggeredWith: if ctx.Err() != nil { return }
TrigCheck(t) ==
    /\ t.kind = "trig"
    /\ t.pc = "check"
    /\ tasks' = Move(t,
            IF Cancelled(t.ctx) THEN Finish(t) ELSE [t EXCEPT !.pc = "select"])
    /\ UNCHANGED taskFrame

\* select: case <-ctx.Done(): return
TrigCtxDone(t) ==
    /\ t.kind = "trig"
    /\ t.pc = "select"
    /\ Cancelled(t.ctx)
    /\ tasks' = Move(t, Finish(t))
    /\ UNCHANGED taskFrame

\* Variant of the receive that calls foo without the value received.
TrigReceiveDropsValue(t, v) ==
    /\ t.kind = "trig"
    /\ t.pc = "select"
    /\ tasks' = Move(t, [t EXCEPT !.pc = "foo"])
    /\ UNCHANGED taskFrame

\* select: case val := <-triggerChan: foo(ctx, val).  A receive from the
\* closed channel yields the zero value.
TrigReceive(t, v) ==
    /\ t.kind = "trig"
    /\ t.pc = "select"
    /\ tasks' = Move(t,
            [t EXCEPT !.val = IF trigClosed THEN 0 ELSE v, !.pc = "foo"])
    /\ UNCHANGED taskFrame

TrigFooReturn(t) ==
    /\ t.kind = "trig"
    /\ t.pc = "foo"
    /\ tasks' = Move(t, [t EXCEPT !.val = 0, !.pc = "check"])
    /\ UNCHANGED taskFrame

\* The owner of the trigger channel closes it.
CloseTrigger ==
    /\ ~trigClosed
    /\ trigClosed' = TRUE
    /\ UNCHANGED <<ctlVars, scopeVars, parentDone, watchers, tasks, promises, limVars, lookup, callers, ncalls>>

\* --------------------------------------------------- LaunchPromiseThread
\* promise.ProduceError(err) / promise.Produce(val)
Produce(pr, result) ==
    [pr EXCEPT !.state = IF @ = "Pending" THEN result ELSE @, !.produces = @ + 1]

\* NewPromise(nil); promise.ProduceError(err)
ResolvedPromise(err) ==
    [state |-> err, produces |-> 1, cancels |-> 0, outer |-> 0]

\* ctx, err := s.GetContextSafe(); on error return a promise resolved to it.
LaunchPromiseThread(p) ==
    /\ CanCall(p)
    /\ ncalls' = ncalls + 1
    /\ IF getContext.err # ErrNil
       THEN /\ promises' = Append(promises, ResolvedPromise(getContext.err))
            /\ callers' = [callers EXCEPT ![p] =
                   Ret([Begin(p, "LaunchPromiseThread") EXCEPT !.prom = Len(promises) + 1],
                       ErrNil)]
       ELSE /\ callers' = [callers EXCEPT ![p] =
                   [Begin(p, "LaunchPromiseThread") EXCEPT
                       !.pc = "lp_stopped", !.ctx = getContext.ctx]]
            /\ UNCHANGED promises
    /\ UNCHANGED <<ctlVars, scopeVars, parentDone, watchers, tasks, trigClosed, limVars, lookup>>

\* Variant of LaunchPromiseThread's Stopped() step that always launches.
LaunchPromiseStoppedNoCheck(p) ==
    /\ callers[p].pc = "lp_stopped"
    /\ promises' = Append(promises,
            [state |-> "Pending", produces |-> 0, cancels |-> 0,
             outer |-> callers[p].ctx])
    /\ callers' = [callers EXCEPT ![p] =
            [@ EXCEPT !.prom = Len(promises) + 1, !.kind = "promise",
                      !.pc = "lp_launch"]]
    /\ UNCHANGED <<ctlVars, scopeVars, parentDone, watchers, tasks, trigClosed, limVars, lookup, ncalls>>

\* if s.Stopped() { return a promise resolved to "stopped" }; otherwise
\* innerCtx, cancel := context.WithCancel(ctx); promise := NewPromise(cancel)
LaunchPromiseStopped(p) ==
    /\ callers[p].pc = "lp_stopped"
    /\ IF stopped
       THEN /\ promises' = Append(promises, ResolvedPromise(ErrStopped))
            /\ callers' = [callers EXCEPT ![p] =
                   Ret([@ EXCEPT !.prom = Len(promises) + 1], ErrNil)]
       ELSE /\ promises' = Append(promises,
                   [state |-> "Pending", produces |-> 0, cancels |-> 0,
                    outer |-> callers[p].ctx])
            /\ callers' = [callers EXCEPT ![p] =
                   [@ EXCEPT !.prom = Len(promises) + 1, !.kind = "promise",
                             !.pc = "lp_launch"]]
    /\ UNCHANGED <<ctlVars, scopeVars, parentDone, watchers, tasks, trigClosed, limVars, lookup, ncalls>>

\* err = s.LaunchThreadSafe(func ...): its GetContextSafe step.
LaunchPromiseLaunch(p) ==
    /\ callers[p].pc = "lp_launch"
    /\ LaunchGetContext(p, callers[p])
    /\ UNCHANGED ncalls

\* Variant of the return path that reports the launch result to the promise
\* whatever it is.
LaunchPromiseReturnNoCheck(p) ==
    /\ callers[p].pc = "lp_ret"
    /\ promises' = [promises EXCEPT ![callers[p].prom] = Produce(@, callers[p].ret)]
    /\ callers' = [callers EXCEPT ![p] = Ret(@, ErrNil)]
    /\ UNCHANGED <<ctlVars, scopeVars, parentDone, watchers, tasks, trigClosed, limVars, lookup, ncalls>>

\* if err != nil { promise.ProduceError(err) }; return &promise
LaunchPromiseReturn(p) ==
    /\ callers[p].pc = "lp_ret"
    /\ promises' = IF callers[p].ret # ErrNil
                   THEN [promises EXCEPT ![callers[p].prom] = Produce(@, callers[p].ret)]
                   ELSE promises
    /\ callers' = [callers EXCEPT ![p] = Ret(@, ErrNil)]
    /\ UNCHANGED <<ctlVars, scopeVars, parentDone, watchers, tasks, trigClosed, limVars, lookup, ncalls>>

\* The promise's task: val, err := foo(innerCtx); Produce or ProduceError.
PromiseFooReturn(t, result) ==
    /\ t.kind = "promise"
    /\ t.pc = "foo"
    /\ promises' = [promises EXCEPT ![t.prom] = Produce(@, result)]
    /\ tasks' = Move(t, [t EXCEPT !.pc = "cancel"])
    /\ UNCHANGED <<ctlVars, scopeVars, parentDone, watchers, trigClosed, limVars, lookup, callers, ncalls>>

\* cancel(), and the function returns.
PromiseCancel(t) ==
    /\ t.kind = "promise"
    /\ t.pc = "cancel"
    /\ promises' = [promises EXCEPT ![t.prom].cancels = @ + 1]
    /\ tasks' = Move(t, Finish(t))
    /\ UNCHANGED <<ctlVars, scopeVars, parentDone, watchers, trigClosed, limVars, lookup, callers, ncalls>>

\* ------------------------------------------------------- ChanRateLimiter
\* outChan := make(chan T), with the locals of the limiter's loop, the
\* number of values it received and the values it sent so far.
NewLimiter ==
    [closes |-> 0, nextAllowed |-> 0, recvAt |-> 0, ins |-> 0, outs |-> <<>>]

ChanRateLimiter(p) ==
    /\ CanCall(p)
    /\ Len(limiters) < MaxLimiters
    /\ ncalls' = ncalls + 1
    /\ limiters' = Append(limiters, NewLimiter)
    /\ callers' = [callers EXCEPT ![p] =
            [Begin(p, "ChanRateLimiter") EXCEPT
                !.prom = Len(limiters) + 1, !.kind = "limiter", !.pc = "rl_launch"]]
    /\ UNCHANGED <<ctlVars, scopeVars, parentDone, watchers, tasks, promises, trigClosed, now, lookup>>

\* err := s.LaunchThreadSafe(func ...): its GetContextSafe step.
RateLimiterLaunch(p) ==
    /\ callers[p].pc = "rl_launch"
    /\ LaunchGetContext(p, callers[p])
    /\ UNCHANGED ncalls

\* if err != nil { close(outChan); return nil, err }; return outChan, nil
RateLimiterReturn(p) ==
    /\ callers[p].pc = "rl_ret"
    /\ IF callers[p].ret # ErrNil
       THEN /\ limiters' = [limiters EXCEPT ![callers[p].prom].closes = @ + 1]
            /\ callers' = [callers EXCEPT ![p] = Ret([@ EXCEPT !.prom = 0], @.ret)]
       ELSE /\ callers' = [callers EXCEPT ![p] = Ret(@, ErrNil)]
            /\ UNCHANGED limiters
    /\ UNCHANGED <<ctlVars, scopeVars, parentDone, watchers, tasks, promises, trigClosed, now, lookup, ncalls>>

\* The number of values received from inChan so far, by the limiters up to i
\* (every ChanRateLimiter call is given the same input channel).
RECURSIVE Arrived(_)
Arrived(i) == IF i = 0 THEN 0 ELSE limiters[i].ins + Arrived(i - 1)

limiterFrame == <<ctlVars, scopeVars, parentDone, watchers, promises, trigClosed,
                 lookup, callers, ncalls>>

\* time.Now(), d after the clock was last read.
ReadClock(d) ==
    /\ now + d <= MaxTime
    /\ now' = now + d

\* nextAllowedTriggerTime := time.Now()
LimiterNow(t, d) ==
    /\ t.kind = "limiter"
    /\ t.pc = "now"
    /\ ReadClock(d)
    /\ limiters' = [limiters EXCEPT ![t.prom].nextAllowed = now']
    /\ tasks' = Move(t, [t EXCEPT !.pc = "select"])
    /\ UNCHANGED limiterFrame

\* select: case <-ctx.Done(): close(outChan); return
LimiterCtxDone(t) ==
    /\ t.kind = "limiter"
    /\ t.pc = "select"
    /\ Cancelled(t.ctx)
    /\ limiters' = [limiters EXCEPT ![t.prom].closes = @ + 1]
    /\ tasks' = Move(t, Finish(t))
    /\ UNCHANGED <<limiterFrame, now>>

\* Variant of the receive that forwards a value arriving exactly at
\* nextAllowedTriggerTime.
LimiterReceiveNotBefore(t, d) ==
    /\ t.kind = "limiter"
    /\ t.pc = "select"
    /\ Arrived(Len(limiters)) < MaxArrivals
    /\ ReadClock(d)
    /\ IF now' >= limiters[t.prom].nextAllowed
       THEN /\ limiters' = [limiters EXCEPT ![t.prom].ins = @ + 1,
                                            ![t.prom].recvAt = now']
            /\ tasks' = Move(t, [t EXCEPT !.pc = "send",
                                          !.val = Arrived(Len(limiters)) + 1])
       ELSE /\ limiters' = [limiters EXCEPT ![t.prom].ins = @ + 1]
            /\ UNCHANGED tasks
    /\ UNCHANGED limiterFrame

\* select: case data := <-inChan: now := time.Now();
\* if now.After(nextAllowedTriggerTime) { outChan <- data ... }.  The k-th
\* value sent on inChan is k.
LimiterReceive(t, d) ==
    /\ t.kind = "limiter"
    /\ t.pc = "select"
    /\ Arrived(Len(limiters)) < MaxArrivals
    /\ ReadClock(d)
    /\ IF now' > limiters[t.prom].nextAllowed
       THEN /\ limiters' = [limiters EXCEPT ![t.prom].ins = @ + 1,
                                            ![t.prom].recvAt = now']
            /\ tasks' = Move(t, [t EXCEPT !.pc = "send",
                                          !.val = Arrived(Len(limiters)) + 1])
       ELSE /\ limiters' = [limiters EXCEPT ![t.prom].ins = @ + 1]
            /\ UNCHANGED tasks
    /\ UNCHANGED limiterFrame

\* outChan <- data completes with a consumer receiving;
\* nextAllowedTriggerTime = now.Add(maxRateCallback()), r the callback's result.
LimiterSend(t, r) ==
    /\ t.kind = "limiter"
    /\ t.pc = "send"
    /\ LET l == limiters[t.prom]
       IN  limiters' = [limiters EXCEPT ![t.prom] =
               [l EXCEPT !.outs = Append(@, [v |-> t.val, t |-> l.recvAt, rate |-> r]),
                         !.nextAllowed = l.recvAt + r]]
    /\ tasks' = Move(t, [t EXCEPT !.pc = "select", !.val = 0])
    /\ UNCHANGED <<limiterFrame, now>>

\* ------------------------------------------------- StopWaiter (fail-fast)
\* The methods of StopWaiter and the StopWaiterSafe method each one calls.
WrapperOps == {"Start", "StopAndWait", "LaunchThread", "CallIteratively",
               "GetContext", "GetParentContext"}

SafeOp(m) ==
    CASE m = "Start" -> "Start"
      [] m = "StopAndWait" -> "StopAndWait"
      [] m = "LaunchThread" -> "LaunchThreadSafe"
      [] m = "CallIteratively" -> "CallIterativelySafe"
      [] m = "GetContext" -> "GetContextSafe"
      [] m = "GetParentContext" -> "GetParentContextSafe"

\* A goroutine calls method m of StopWaiter; the method's first statement is
\* the call of the embedded StopWaiterSafe's method.
WrapperEnter(p, m) ==
    /\ CanCall(p)
    /\ callers[p].via = "none"
    /\ callers' = [callers EXCEPT ![p].via = m]
    /\ UNCHANGED <<ctlVars, scopeVars, parentDone, watchers, tasks, promises, trigClosed,
                   limVars, lookup, ncalls>>

\* The call of the embedded method made by a StopWaiter method.
Wrapped(p, o) == callers[p].via # "none" /\ SafeOp(callers[p].via) = o

\* Variant of the wrapper that drops the error.
WrapperCheckSwallows(p) ==
    /\ callers[p].pc = "ret"
    /\ callers[p].via # "none"
    /\ callers' = [callers EXCEPT ![p].pc = "wret"]
    /\ UNCHANGED <<ctlVars, scopeVars, parentDone, watchers, tasks, promises, trigClosed,
                   limVars, lookup, ncalls>>

\* if err != nil { panic(err) }, and otherwise the method returns.
WrapperCheck(p) ==
    /\ callers[p].pc = "ret"
    /\ callers[p].via # "none"
    /\ callers' = [callers EXCEPT ![p].pc =
            IF callers[p].ret # ErrNil THEN "panic" ELSE "wret"]
    /\ UNCHANGED <<ctlVars, scopeVars, parentDone, watchers, tasks, promises, trigClosed,
                   limVars, lookup, ncalls>>

\* ---- environment
CancelParent(c) ==
    /\ c \notin parentDone
    /\ parentDone' = parentDone \cup {c}
    /\ UNCHANGED <<ctlVars, scopeVars, watchers, tasks, promises, trigClosed, limVars, lookup, callers, ncalls>>

Next ==
    \/ \E p \in Callers, o \in Owners : Start(p, o)
    \/ \E p \in Callers : StopOnly(p)
    \/ \E p \in Callers : GetContextSafe(p)
    \/ \E p \in Callers : GetParentContextSafe(p)
    \/ \E p \in Callers : GetWaitChannel(p)
    \/ \E p \in Callers : StopAndWait(p)
    \/ \E p \in Callers : StopAndWaitStarted(p)
    \/ \E p \in Callers : StopAndWaitGetWaitChannel(p)
    \/ \E p \in Callers : StopAndWaitTimeout(p)
    \/ \E p \in Callers : StopAndWaitDrained(p)
    \/ \E p \in Callers : Return(p)
    \/ \E p \in Callers : LaunchThreadSafe(p)
    \/ \E p \in Callers : CallIterativelySafe(p)
    \/ \E p \in Callers : CallIterativelyWith(p)
    \/ \E p \in Callers : CallWhenTriggeredWith(p)
    \/ \E p \in Callers : LaunchStopped(p)
    \/ \E p \in Callers : LaunchAdd(p)
    \/ \E p \in Callers : LaunchGo(p)
    \/ \E p \in Callers : LaunchPromiseThread(p)
    \/ \E p \in Callers : LaunchPromiseStopped(p)
    \/ \E p \in Callers : LaunchPromiseLaunch(p)
    \/ \E p \in Callers : LaunchPromiseReturn(p)
    \/ \E t \in BagToSet(tasks) : ThreadFooReturn(t)
    \/ \E t \in BagToSet(tasks) : WgDone(t)
    \/ \E t \in BagToSet(tasks), i \in Intervals : IterFooReturn(t, i)
    \/ \E t \in BagToSet(tasks) : IterTimerFires(t)
    \/ \E t \in BagToSet(tasks) : IterPark(t)
    \/ \E t \in BagToSet(tasks) : IterCtxDone(t)
    \/ \E t \in BagToSet(tasks) : IterTimer(t)
    \/ \E t \in BagToSet(tasks), v \in TriggerVals : IterTrigger(t, v)
    \/ \E t \in BagToSet(tasks) : TrigCheck(t)
    \/ \E t \in BagToSet(tasks) : TrigCtxDone(t)
    \/ \E t \in BagToSet(tasks), v \in TriggerVals : TrigReceive(t, v)
    \/ \E t \in BagToSet(tasks) : TrigFooReturn(t)
    \/ \E t \in BagToSet(tasks), r \in {"Value", ErrFn} : PromiseFooReturn(t, r)
    \/ \E t \in BagToSet(tasks) : PromiseCancel(t)
    \/ \E w \in DOMAIN watchers : WatcherCtxDone(w)
    \/ \E w \in DOMAIN watchers : WatcherWgWait(w)
    \/ \E w \in DOMAIN watchers : WatcherClose(w)
    \/ \E c \in Cancellable : CancelParent(c)

Spec == Init /\ [][Next]_vars

\* The same system with functions that may end their goroutine abnormally.
AbnormalNext ==
    \/ Next
    \/ \E t \in BagToSet(tasks) : ThreadFooGoexit(t)

AbnormalSpec == Init /\ [][AbnormalNext]_vars

\* The timer and trigger combinators on their own, with an owner of the
\* trigger channel that may close it.
TriggerNext ==
    \/ \E p \in Callers, o \in Owners : Start(p, o)
    \/ \E p \in Callers : StopOnly(p)
    \/ \E p \in Callers : Return(p)
    \/ \E p \in Callers : CallIterativelySafe(p)
    \/ \E p \in Callers : CallIterativelyWith(p)
    \/ \E p \in Callers : CallWhenTriggeredWith(p)
    \/ \E p \in Callers : LaunchStopped(p)
    \/ \E p \in Callers : LaunchAdd(p)
    \/ \E p \in Callers : LaunchGo(p)
    \/ \E t \in BagToSet(tasks) : WgDone(t)
    \/ \E t \in BagToSet(tasks), i \in Intervals : IterFooReturn(t, i)
    \/ \E t \in BagToSet(tasks) : IterTimerFires(t)
    \/ \E t \in BagToSet(tasks) : IterPark(t)
    \/ \E t \in BagToSet(tasks) : IterCtxDone(t)
    \/ \E t \in BagToSet(tasks) : IterTimer(t)
    \/ \E t \in BagToSet(tasks), v \in TriggerVals : IterTrigger(t, v)
    \/ \E t \in BagToSet(tasks) : IterTriggerClosed(t)
    \/ \E t \in BagToSet(tasks) : TrigCheck(t)
    \/ \E t \in BagToSet(tasks) : TrigCtxDone(t)
    \/ \E t \in BagToSet(tasks), v \in TriggerVals : TrigReceive(t, v)
    \/ \E t \in BagToSet(tasks) : TrigFooReturn(t)
    \/ CloseTrigger
    \/ \E c \in Cancellable : CancelParent(c)

TriggerSpec == Init /\ [][TriggerNext]_vars

\* The goroutine that owns the rate limiters: it starts and stops the
\* controller and calls ChanRateLimiter.
RateCallers == {"c1"}

\* It starts the controller under context.Background().
RateOwners == {o \in Owners : o.ctx = "bg"}

\* The rate limiter on its own, with a clock, senders on the input channel
\* and a consumer of the output channel.
RateNext ==
    \/ \E p \in RateCallers, o \in RateOwners : Start(p, o)
    \/ \E p \in RateCallers : StopOnly(p)
    \/ \E p \in RateCallers : Return(p)
    \/ \E p \in RateCallers : ChanRateLimiter(p)
    \/ \E p \in RateCallers : RateLimiterLaunch(p)
    \/ \E p \in RateCallers : LaunchStopped(p)
    \/ \E p \in RateCallers : LaunchAdd(p)
    \/ \E p \in RateCallers : LaunchGo(p)
    \/ \E p \in RateCallers : RateLimiterReturn(p)
    \/ \E t \in BagToSet(tasks), d \in 0 .. MaxTime : LimiterNow(t, d)
    \/ \E t \in BagToSet(tasks) : LimiterCtxDone(t)
    \/ \E t \in BagToSet(tasks), d \in 0 .. MaxTime : LimiterReceive(t, d)
    \/ \E t \in BagToSet(tasks), r \in Rates : LimiterSend(t, r)
    \/ \E t \in BagToSet(tasks) : WgDone(t)

RateSpec == Init /\ [][RateNext]_vars

\* A controller used through StopWaiter: its six methods, and StopOnly, which
\* StopWaiter has from the embedded StopWaiterSafe.
WrapNext ==
    \/ \E p \in Callers, m \in WrapperOps : WrapperEnter(p, m)
    \/ \E p \in Callers : WrapperCheck(p)
    \/ \E p \in Callers, o \in Owners : Wrapped(p, "Start") /\ Start(p, o)
    \/ \E p \in Callers : callers[p].via = "none" /\ StopOnly(p)
    \/ \E p \in Callers : Wrapped(p, "GetContextSafe") /\ GetContextSafe(p)
    \/ \E p \in Callers : Wrapped(p, "GetParentContextSafe") /\ GetParentContextSafe(p)
    \/ \E p \in Callers : Wrapped(p, "StopAndWait") /\ StopAndWait(p)
    \/ \E p \in Callers : StopAndWaitStarted(p)
    \/ \E p \in Callers : StopAndWaitGetWaitChannel(p)
    \/ \E p \in Callers : StopAndWaitTimeout(p)
    \/ \E p \in Callers : StopAndWaitDrained(p)
    \/ \E p \in Callers : Return(p)
    \/ \E p \in Callers : Wrapped(p, "LaunchThreadSafe") /\ LaunchThreadSafe(p)
    \/ \E p \in Callers : Wrapped(p, "CallIterativelySafe") /\ CallIterativelySafe(p)
    \/ \E p \in Callers : LaunchStopped(p)
    \/ \E p \in Callers : LaunchAdd(p)
    \/ \E p \in Callers : LaunchGo(p)
    \/ \E t \in BagToSet(tasks) : ThreadFooReturn(t)
    \/ \E t \in BagToSet(tasks) : WgDone(t)
    \/ \E t \in BagToSet(tasks), i \in Intervals : IterFooReturn(t, i)
    \/ \E t \in BagToSet(tasks) : IterTimerFires(t)
    \/ \E t \in BagToSet(tasks) : IterPark(t)
    \/ \E t \in BagToSet(tasks) : IterCtxDone(t)
    \/ \E t \in BagToSet(tasks) : IterTimer(t)
    \/ \E w \in DOMAIN watchers : WatcherCtxDone(w)
    \/ \E w \in DOMAIN watchers : WatcherWgWait(w)
    \/ \E w \in DOMAIN watchers : WatcherClose(w)

WrapSpec == Init /\ [][WrapNext]_vars

\* ------------------------------------- RollupWatcher.LookupNodeChildren
lookupFrame == <<ctlVars, scopeVars, parentDone, watchers, tasks, promises,
                 trigClosed, limVars, callers, ncalls>>

\* The call reaches the loop: GetNode succeeded, the node has a child and the
\* expected hash, and getNodeCreationBlock gave f for the node and t for its
\* latest child (block numbers, so not negative).
LookupNodeChildren(size, f, t) ==
    /\ lookup.pc = "idle"
    /\ lookup' = [NoLookup EXCEPT !.pc = "loop", !.size = size,
                                  !.from0 = f, !.to0 = t,
                                  !.fromBlock = f, !.toBlock = t]
    /\ UNCHANGED lookupFrame

\* The call returns before the loop: an error of GetNode or of
\* getNodeCreationBlock, an unexpected node hash, or nil for a node with no
\* child.
LookupEarlyReturn(e) ==
    /\ lookup.pc = "idle"
    /\ lookup' = [NoLookup EXCEPT !.pc = "done", !.err = e]
    /\ UNCHANGED lookupFrame

\* query.ToBlock of the iteration that starts at block from.
QueryToBlock(size, from, to) ==
    LET qTo == IF size = 0 THEN to ELSE from + size
    IN  IF qTo > to THEN to ELSE qTo

\* One iteration of the loop whose FilterLogs call succeeds.
LookupQuery ==
    /\ lookup.pc = "loop"
    /\ lookup.toBlock > lookup.fromBlock
    /\ LET qTo == QueryToBlock(lookup.size, lookup.fromBlock, lookup.toBlock)
       IN  lookup' = [lookup EXCEPT
                !.queries = Append(@, [FromBlock |-> lookup.fromBlock,
                                       ToBlock |-> qTo]),
                !.fromBlock = qTo + 1]
    /\ UNCHANGED lookupFrame

\* One iteration of the loop whose FilterLogs call fails: return nil, err.
LookupQueryFails ==
    /\ lookup.pc = "loop"
    /\ lookup.toBlock > lookup.fromBlock
    /\ LET qTo == QueryToBlock(lookup.size, lookup.fromBlock, lookup.toBlock)
       IN  lookup' = [lookup EXCEPT
                !.queries = Append(@, [FromBlock |-> lookup.fromBlock,
                                       ToBlock |-> qTo]),
                !.pc = "done", !.err = ErrRPC]
    /\ UNCHANGED lookupFrame

\* The loop condition toBlock.Cmp(fromBlock) > 0 is false: the logs fetched
\* so far are all the logs the call will parse.
LookupLoopExit ==
    /\ lookup.pc = "loop"
    /\ ~(lookup.toBlock > lookup.fromBlock)
    /\ lookup' = [lookup EXCEPT !.pc = "parse"]
    /\ UNCHANGED lookupFrame

\* The logs are parsed and the call returns the node infos, or the error of
\* ParseNodeCreated or CorrespondingL1BlockNumber.
LookupReturn(e) ==
    /\ lookup.pc = "parse"
    /\ lookup' = [lookup EXCEPT !.pc = "done", !.err = e]
    /\ UNCHANGED lookupFrame

LookupNext ==
    \/ \E size \in 0 .. MaxRangeSize, f \in 0 .. MaxBlock, t \in 0 .. MaxBlock :
            LookupNodeChildren(size, f, t)
    \/ \E e \in {ErrNil, ErrRPC} : LookupEarlyReturn(e)
    \/ LookupQuery
    \/ LookupQueryFails
    \/ LookupLoopExit
    \/ \E e \in {ErrNil, ErrRPC} : LookupReturn(e)

LookupSpec == Init /\ [][LookupNext]_vars

\* ------------------------------------------------------------ fairness
\* The lifecycle operations with the tasks of LaunchThreadSafe and of the
\* timer and trigger combinators (CallIterativelyWith has the loop of
\* CallIterativelySafe plus the trigger case).
StopNext ==
    \/ \E p \in Callers, o \in Owners : Start(p, o)
    \/ \E p \in Callers : StopOnly(p)
    \/ \E p \in Callers : GetWaitChannel(p)
    \/ \E p \in Callers : StopAndWait(p)
    \/ \E p \in Callers : StopAndWaitStarted(p)
    \/ \E p \in Callers : StopAndWaitGetWaitChannel(p)
    \/ \E p \in Callers : StopAndWaitTimeout(p)
    \/ \E p \in Callers : StopAndWaitDrained(p)
    \/ \E p \in Callers : Return(p)
    \/ \E p \in Callers : LaunchThreadSafe(p)
    \/ \E p \in Callers : CallIterativelyWith(p)
    \/ \E p \in Callers : CallWhenTriggeredWith(p)
    \/ \E p \in Callers : LaunchStopped(p)
    \/ \E p \in Callers : LaunchAdd(p)
    \/ \E p \in Callers : LaunchGo(p)
    \/ \E t \in BagToSet(tasks) : ThreadFooReturn(t)
    \/ \E t \in BagToSet(tasks) : WgDone(t)
    \/ \E t \in BagToSet(tasks), i \in Intervals : IterFooReturn(t, i)
    \/ \E t \in BagToSet(tasks) : IterTimerFires(t)
    \/ \E t \in BagToSet(tasks) : IterPark(t)
    \/ \E t \in BagToSet(tasks) : IterCtxDone(t)
    \/ \E t \in BagToSet(tasks) : IterTimer(t)
    \/ \E t \in BagToSet(tasks), v \in TriggerVals : IterTrigger(t, v)
    \/ \E t \in BagToSet(tasks) : TrigCheck(t)
    \/ \E t \in BagToSet(tasks) : TrigCtxDone(t)
    \/ \E t \in BagToSet(tasks), v \in TriggerVals : TrigReceive(t, v)
    \/ \E t \in BagToSet(tasks) : TrigFooReturn(t)
    \/ \E w \in DOMAIN watchers : WatcherCtxDone(w)
    \/ \E w \in DOMAIN watchers : WatcherWgWait(w)
    \/ \E w \in DOMAIN watchers : WatcherClose(w)
    \/ \E c \in Cancellable : CancelParent(c)

\* A call in progress goes on: the Go scheduler runs every runnable
\* goroutine.  Nothing obliges a caller to make a further call.
CallerStep(p) ==
    \/ StopAndWaitStarted(p)
    \/ StopAndWaitGetWaitChannel(p)
    \/ StopAndWaitDrained(p)
    \/ LaunchStopped(p)
    \/ LaunchAdd(p)
    \/ LaunchGo(p)

WatcherStep ==
    \E w \in DOMAIN watchers :
        WatcherCtxDone(w) \/ WatcherWgWait(w) \/ WatcherClose(w)

\* A supervised function returns once its context is cancelled, and the
\* code around it runs on.
TaskExitStep ==
    \E t \in BagToSet(tasks) :
        \/ WgDone(t)
        \/ /\ Cancelled(t.ctx)
           /\ \/ ThreadFooReturn(t)
              \/ \E i \in Intervals : IterFooReturn(t, i)
              \/ IterCtxDone(t)
              \/ TrigCheck(t)
              \/ TrigCtxDone(t)
              \/ TrigFooReturn(t)

FairSpec ==
    /\ Init
    /\ [][StopNext]_vars
    /\ \A p \in Callers : WF_vars(CallerStep(p))
    /\ WF_vars(WatcherStep)
    /\ WF_vars(TaskExitStep)

\* ============================================================ properties
\* Caller p makes the first step of a call of operation o.
BeginStep(p, o) ==
    /\ callers[p].pc = "idle"
    /\ callers'[p].pc # "idle"
    /\ callers'[p].op = o

LaunchOps == {"LaunchThreadSafe", "CallIterativelySafe", "CallIterativelyWith",
              "CallWhenTriggeredWith"}

ScopeOps == LaunchOps \cup {"GetContextSafe", "GetParentContextSafe", "GetWaitChannel"}

RunningTasks == {t \in BagToSet(tasks) : Running(t)}

\* C1: no StopAndWait call on a started controller returns while a task
\* launched through LaunchThreadSafe is still running its function.
C1_NoReturnWhileTaskRuns ==
    [][\A p \in Callers :
          (callers[p].pc \in {"sw_select", "sw_wait"} /\ callers'[p].pc = "ret")
              => RunningTasks' = {}]_vars

\* C2: on a started controller a LaunchThreadSafe call that begins after
\* StopOnly has returned never reaches the counter increment or the go
\* statement, and returns nil.
C2_LaunchAfterStopIsNoop ==
    \A p \in Callers :
        (callers[p].op \in LaunchOps /\ callers[p].enStarted /\ callers[p].enStopped)
            => /\ callers[p].pc \in {"lt_stopped", "ret"}
               /\ callers[p].pc = "ret" => callers[p].ret = ErrNil

C2_Witness ==
    \E p \in Callers :
        /\ callers[p].op = "LaunchThreadSafe"
        /\ callers[p].enStarted /\ callers[p].enStopped
        /\ callers[p].pc = "ret" /\ callers[p].ret = ErrNil
        /\ wg = 0 /\ tasks = EmptyBag

\* C3: the task counter is never incremented, and no goroutine is started,
\* in a state where stopped is already true.
C3_RegisterOnlyWhileNotStopped ==
    [][(\/ wg' > wg
        \/ \E p \in Callers : callers[p].pc = "lt_go" /\ callers'[p].pc # "lt_go")
          => ~stopped]_vars

\* C4: a scope-dependent operation called before Start returns the
\* not-started error at once and changes nothing but the caller's result.
C4_NotStartedError ==
    [][\A p \in Callers : \A o \in ScopeOps :
          (BeginStep(p, o) /\ ~started)
              => /\ callers'[p].pc = "ret"
                 /\ callers'[p].ret = ErrNotStarted
                 /\ callers'[p].ctx = 0 /\ callers'[p].wc = 0
                 /\ tasks' = EmptyBag /\ watchers' = <<>> /\ waitChan' = 0
                 /\ UNCHANGED <<ctlVars, scopeVars, watchers, tasks, promises>>]_vars

C4_Witness ==
    /\ ~started
    /\ callers["c1"].pc = "ret" /\ callers["c1"].op = "GetWaitChannel"
    /\ callers["c1"].ret = ErrNotStarted
    /\ callers["c2"].pc = "ret" /\ callers["c2"].op = "CallWhenTriggeredWith"
    /\ callers["c2"].ret = ErrNotStarted

\* C5: Start on a started controller fails with start-after-start and leaves
\* every field set by the first Start unchanged; Start on a controller that
\* is not started succeeds, so of several Start calls exactly one succeeds.
C5_SecondStartFails ==
    [][\A p \in Callers :
          BeginStep(p, "Start") =>
              IF started
              THEN /\ callers'[p].ret = ErrStartAfterStart
                   /\ UNCHANGED <<started, stopped, ctx, parentCtx, stopFunc, name>>
                   /\ UNCHANGED <<scopes, cancelled, cancelCalls>>
              ELSE /\ callers'[p].ret = ErrNil
                   /\ started'
                   /\ Len(scopes') = 1]_vars

C5_Witness ==
    \E p \in Callers :
        /\ callers[p].pc = "ret" /\ callers[p].op = "Start"
        /\ callers[p].ret = ErrStartAfterStart
        /\ started /\ ~stopped /\ ~Cancelled(ctx)

\* C6: Start after StopOnly/StopAndWait succeeds and leaves the new scope
\* cancelled; GetContextSafe on a stopped controller returns a cancelled
\* scope, and a goroutine started while stopped gets a cancelled scope.
C6_StartAfterStopCancels ==
    [][\A p \in Callers :
          /\ (BeginStep(p, "Start") /\ stopped /\ ~started)
                => /\ callers'[p].ret = ErrNil
                   /\ started'
                   /\ Cancelled(ctx)'
          /\ (BeginStep(p, "GetContextSafe") /\ stopped /\ started)
                => /\ callers'[p].ret = ErrNil
                   /\ Cancelled(callers'[p].ctx)
          /\ (callers[p].pc = "lt_go" /\ callers'[p].pc # "lt_go" /\ stopped)
                => Cancelled(callers[p].ctx)]_vars

C6_Witness ==
    \E p \in Callers :
        /\ callers[p].pc = "ret" /\ callers[p].op = "Start"
        /\ callers[p].ret = ErrNil /\ callers[p].enStopped
        /\ ctx \in cancelled

\* C7: the drain signal is created at most once and closed at most once,
\* every caller holds the same handle, and whenever it is closed the scope
\* is cancelled and the task counter is zero.
C7_DrainSignal ==
    /\ Len(watchers) <= 1
    /\ \A w \in DOMAIN watchers : watchers[w].closes <= 1
    /\ \A p \in Callers : callers[p].wc # 0 => callers[p].wc = waitChan
    /\ \A w \in DOMAIN watchers :
          watchers[w].closes > 0 => Cancelled(watchers[w].ctx) /\ wg = 0

InStopAndWait(p) == callers[p].pc \in {"sw_started", "sw_getwc", "sw_select", "sw_wait"}

\* C8: under fair scheduling every StopAndWait call eventually returns nil;
\* it returns at once when the controller is not started, the timer case
\* only leads to the second wait, and no StopAndWait returns an error.
C8_StopAndWaitReturns ==
    /\ \A p \in Callers :
          InStopAndWait(p) ~>
              (callers[p].pc = "ret" /\ callers[p].op = "StopAndWait"
                  /\ callers[p].ret = ErrNil)
    /\ [][\A p \in Callers :
            /\ (callers[p].pc = "sw_started" /\ callers'[p].pc # "sw_started" /\ ~started)
                  => callers'[p].pc = "ret"
            /\ (callers[p].pc = "sw_select" /\ callers'[p].pc # "sw_select"
                   /\ ~ChanClosed(callers[p].wc))
                  => callers'[p].pc = "sw_wait"
            /\ (InStopAndWait(p) /\ callers'[p].pc = "ret")
                  => callers'[p].ret = ErrNil]_vars

C8_Witness ==
    \E p \in Callers :
        /\ callers[p].pc = "ret" /\ callers[p].op = "StopAndWait"
        /\ callers[p].ret = ErrNil /\ callers[p].warned
        /\ callers[p].enStarted
        /\ ChanClosed(callers[p].wc)

\* C9 as stated: a call on a launcher that is not started yields a promise
\* resolved to not-started, and a call on a stopped launcher one resolved to
\* stopped; no task, no counter change.
C9_AsStated ==
    \A p \in Callers :
        (callers[p].op = "LaunchPromiseThread" /\ callers[p].pc = "ret")
            => /\ ~callers[p].enStarted => promises[callers[p].prom].state = ErrNotStarted
               /\ callers[p].enStopped => promises[callers[p].prom].state = ErrStopped

\* C9 (amended): a call on a launcher that is not started yields a promise
\* already resolved to not-started; a call on a launcher that is started and
\* already stopped yields one already resolved to stopped; in both cases the
\* call never reaches LaunchThreadSafe and no task owns the promise.
C9_PreResolved ==
    \A p \in Callers :
        (/\ callers[p].op = "LaunchPromiseThread"
         /\ ~callers[p].enStarted \/ callers[p].enStopped)
            => /\ callers[p].pc \in {"lp_stopped", "ret"}
               /\ ~callers[p].enStarted => callers[p].pc = "ret"
               /\ callers[p].pc = "ret" =>
                     /\ promises[callers[p].prom].state =
                            IF callers[p].enStarted THEN ErrStopped ELSE ErrNotStarted
                     /\ promises[callers[p].prom].produces = 1
                     /\ \A t \in BagToSet(tasks) : t.prom # callers[p].prom

C9_Witness ==
    \E p \in Callers :
        /\ callers[p].op = "LaunchPromiseThread" /\ callers[p].pc = "ret"
        /\ callers[p].enStarted /\ callers[p].enStopped
        /\ promises[callers[p].prom].state = ErrStopped
        /\ wg = 0

\* C10: a promise that is still Pending has someone who will resolve it: the
\* LaunchPromiseThread call that made it is still in progress, or its task
\* has not yet returned from fn.
C10_PendingHasResolver ==
    \A pr \in DOMAIN promises :
        promises[pr].state = "Pending"
            => \/ \E p \in Callers : callers[p].prom = pr /\ callers[p].pc # "ret"
               \/ \E t \in BagToSet(tasks) : t.prom = pr /\ t.pc = "foo"

\* C11: no promise of LaunchPromiseThread is resolved twice (the pre-resolved
\* paths, the task's resolution and the launch-failure path exclude one
\* another), the inner scope is cancelled by the task only after it has
\* resolved the promise, and the task does not end without cancelling it.
C11_ResolvedAtMostOnce ==
    /\ \A pr \in DOMAIN promises :
          /\ promises[pr].produces <= 1
          /\ promises[pr].produces = 1 <=> promises[pr].state # "Pending"
          /\ promises[pr].cancels <= 1
          /\ promises[pr].cancels = 1 => promises[pr].produces = 1
    /\ \A t \in BagToSet(tasks) :
          t.kind = "promise" =>
              /\ t.pc = "foo" => promises[t.prom].state = "Pending"
              /\ t.pc = "cancel" => promises[t.prom].state \in {"Value", ErrFn}
              /\ t.pc = "done" => promises[t.prom].cancels = 1

C11_Witness ==
    \E pr \in DOMAIN promises :
        /\ promises[pr].state = "Value"
        /\ promises[pr].produces = 1
        /\ promises[pr].cancels = 1
        /\ \A p \in Callers : callers[p].pc = "idle"

\* Task t takes a step in which it becomes t2.
TaskStep(t, t2) == t2 # t /\ tasks' = Move(t, t2)

Started == {t2 \in BagToSet(tasks') : CopiesIn(t2, tasks') > CopiesIn(t2, tasks)
                                      /\ BagCardinality(tasks') > BagCardinality(tasks)}

\* C13: for a task of CallIterativelyWith, the first invocation, one after a
\* zero delay and one after timer expiry carry the zero value; a value v
\* received while the timer is armed leads to an invocation with exactly v
\* without the timer having fired; the value is reset when the invocation
\* returns, so no received value reaches a second invocation.
C13_ValuePassing ==
    [][/\ \A t2 \in Started : t2.kind = "iterWith" => t2.pc = "foo" /\ t2.val = 0
       /\ \A t \in BagToSet(tasks) :
             t.kind = "iterWith" =>
                 /\ t.pc # "foo" => t.val = 0
                 /\ \A t2 \in BagToSet(tasks') :
                       TaskStep(t, t2) =>
                           /\ t.pc = "foo" => t2.val = 0
                           /\ IterTimer(t) => t2.pc = "foo" /\ t2.val = 0
                           /\ \A v \in TriggerVals :
                                 IterTrigger(t, v) => t2.pc = "foo" /\ t2.val = v
                           /\ (t.pc = "select" /\ t2.pc = "foo")
                                 => t2.val \in TriggerVals /\ ~trigClosed
                           /\ t2.pc = "foo" => t.pc # "done"]_vars

C13_Witness ==
    \E t \in BagToSet(tasks) :
        /\ t.kind = "iterWith" /\ t.pc = "foo" /\ t.val = 2
        /\ ~Cancelled(t.ctx)

\* C14: a task of CallWhenTriggeredWith is one sequential loop (a single
\* invocation in flight); fn is invoked only with the value the receive from
\* the trigger channel yielded (a value sent, or the zero value once the
\* channel is closed), at once after the receive; when fn returns the value
\* is gone and the next invocation needs a new receive.
C14_TriggeredInvocations ==
    [][/\ \A t2 \in Started : t2.kind = "trig" => t2.pc = "check" /\ t2.val = 0
       /\ \A t \in BagToSet(tasks) :
             t.kind = "trig" =>
                 /\ t.pc # "foo" => t.val = 0
                 /\ t.pc = "foo" => t.val \in TriggerVals \/ (t.val = 0 /\ trigClosed)
                 /\ \A t2 \in BagToSet(tasks') :
                       TaskStep(t, t2) =>
                           /\ t2.pc = "foo" => t.pc = "select"
                           /\ \A v \in TriggerVals :
                                 (TrigReceive(t, v) /\ ~trigClosed)
                                     => t2.pc = "foo" /\ t2.val = v
                           /\ t.pc = "foo" => t2.pc = "check" /\ t2.val = 0]_vars

C14_Witness ==
    \E t \in BagToSet(tasks) :
        /\ t.kind = "trig" /\ t.pc = "foo" /\ t.val = 1
        /\ ~trigClosed

\* C17: when the trigger channel is closed while a task of CallIterativelyWith
\* or CallWhenTriggeredWith is waiting on it, the next step of the task is
\* its exit: fn is not invoked again.
C17_ClosedTriggerEndsTask ==
    [][\A t \in BagToSet(tasks) : \A t2 \in BagToSet(tasks') :
          (/\ TaskStep(t, t2)
           /\ trigClosed
           /\ \/ t.kind = "iterWith" /\ t.pc = "parked"
              \/ t.kind = "trig" /\ t.pc = "select")
              => t2.pc = "done"]_vars

\* The limiter tasks of limiter i.
LimiterTasks(b, i) == {t \in BagToSet(b) : t.kind = "limiter" /\ t.prom = i}

\* C15: a value received by a rate limiter at time t is handed to the send
\* on the output channel iff t is strictly after nextAllowed, and when it is
\* sent nextAllowed becomes t + rateFn(); any other value is dropped for good.
\* The values sent are in arrival order, each sent once, and the arrival
\* times of two consecutive ones differ by more than the earlier one's rate.
C15_RateLimit ==
    [][\A i \in DOMAIN limiters :
          LET l == limiters[i]
              l2 == limiters'[i]
          IN  /\ l2.ins # l.ins =>
                    /\ l2.ins = l.ins + 1
                    /\ IF now' > l.nextAllowed
                       THEN /\ l2.recvAt = now'
                            /\ \E t2 \in LimiterTasks(tasks', i) :
                                  t2.pc = "send" /\ t2.val = Arrived(Len(limiters)) + 1
                       ELSE \A t2 \in LimiterTasks(tasks', i) : t2.pc # "send"
                    /\ l2.outs = l.outs /\ l2.nextAllowed = l.nextAllowed
              /\ l2.outs # l.outs =>
                    \E t \in LimiterTasks(tasks, i), r \in Rates :
                        /\ t.pc = "send"
                        /\ l.recvAt > l.nextAllowed
                        /\ l2.outs = Append(l.outs, [v |-> t.val, t |-> l.recvAt, rate |-> r])
                        /\ l2.nextAllowed = l.recvAt + r
              /\ \A k \in DOMAIN l2.outs :
                    /\ l2.outs[k].v \in 1 .. Arrived(Len(limiters))
                    /\ k > 1 => /\ l2.outs[k].v > l2.outs[k - 1].v
                                /\ l2.outs[k].t - l2.outs[k - 1].t > l2.outs[k - 1].rate
              /\ Len(l2.outs) <= l2.ins]_vars

C15_Witness ==
    \E i \in DOMAIN limiters :
        /\ limiters[i].ins = 3
        /\ Len(limiters[i].outs) = 2
        /\ limiters[i].outs[2].v = 3
        /\ limiters[i].closes = 0

\* C18: a ChanRateLimiter call that returned an output channel leaves a task
\* that closes the channel once the scope is cancelled: while the channel is
\* open its limiter task exists and is not stuck.
C18_OutputGetsClosed ==
    \A p \in Callers :
        (/\ callers[p].op = "ChanRateLimiter"
         /\ callers[p].pc = "ret"
         /\ callers[p].ret = ErrNil
         /\ limiters[callers[p].prom].closes = 0)
            => \E t \in LimiterTasks(tasks, callers[p].prom) : t.pc \in {"now", "select", "send"}

\* C16: a StopWaiter method panics exactly when the StopWaiterSafe method it
\* calls returns an error, and then never returns; otherwise it returns and
\* the check changes nothing.  The panics are Start on a started controller
\* and LaunchThread, CallIteratively, GetContext and GetParentContext before
\* Start; StopAndWait never panics.
C16_WrapperPanicsOnError ==
    [][\A p \in Callers :
          /\ (callers[p].pc = "ret" /\ callers[p].via # "none" /\ callers'[p] # callers[p])
                => /\ callers'[p] = [callers[p] EXCEPT !.pc =
                          IF callers[p].ret # ErrNil THEN "panic" ELSE "wret"]
                   /\ UNCHANGED <<ctlVars, scopeVars, watchers, tasks>>
          /\ callers[p].pc = "panic" => callers'[p] = callers[p]
          /\ callers'[p].pc = "wret" => callers'[p].ret = ErrNil
          /\ callers'[p].pc = "panic" =>
                \/ /\ callers'[p].via = "Start"
                   /\ callers'[p].ret = ErrStartAfterStart
                   /\ callers'[p].enStarted
                \/ /\ callers'[p].via \in {"LaunchThread", "CallIteratively",
                                             "GetContext", "GetParentContext"}
                   /\ callers'[p].ret = ErrNotStarted
                   /\ ~callers'[p].enStarted
          /\ (callers'[p].via # "none" /\ callers'[p].op # "none")
                => callers'[p].op = SafeOp(callers'[p].via)]_vars

C16_Witness ==
    /\ callers["c1"].pc = "panic" /\ callers["c1"].via = "LaunchThread"
    /\ callers["c1"].ret = ErrNotStarted
    /\ callers["c2"].pc = "wret" /\ callers["c2"].via = "Start"
    /\ started

\* C19: with the parent context not cancelled, started and stopped only go
\* from false to true, the cancel function is invoked at most once, and the
\* controller's scope is cancelled iff started and stopped are both true.
C19_LifecycleFlags ==
    [][/\ started => started'
       /\ stopped => stopped'
       /\ cancelCalls' <= 1
       /\ cancelCalls' >= cancelCalls
       /\ parentDone' = {} => (Cancelled(ctx)' <=> (started' /\ stopped'))
       /\ (started' /\ stopped') <=> cancelCalls' = 1]_vars

C19_Witness ==
    \E p \in Callers :
        /\ callers[p].op = "StopAndWait" /\ callers[p].pc = "ret"
        /\ callers[p].enStarted /\ callers[p].enStopped
        /\ cancelCalls = 1 /\ ctx \in cancelled /\ parentDone = {}

\* C20: every task registered by LaunchThreadSafe is counted until its
\* function has ended, however it ends, and is then counted no more: the
\* counter is the number of goroutines registered and not yet finished, so it
\* is zero once all launched functions have ended.
C20_CounterMatchesTasks ==
    wg = BagCardinality(tasks) + Cardinality({p \in Callers : callers[p].pc = "lt_go"})
\* C21: in LookupNodeChildren, for fromBlock < toBlock and any
\* logQueryRangeSize (0 meaning unlimited), the loop that splits the log
\* query ends after at most toBlock - fromBlock iterations, the successive
\* FilterLogs ranges are contiguous and do not overlap, each spans at most
\* logQueryRangeSize + 1 blocks when the size is not zero, and when the loop
\* has ended they cover every block from the parent's creation block
\* through the latest child's creation block, toBlock included.
C21_RangesCoverInterval ==
    lookup.from0 < lookup.to0 =>
        LET q == lookup.queries IN
        /\ Len(q) <= lookup.to0 - lookup.from0
        /\ \A i \in DOMAIN q :
              /\ q[i].FromBlock <= q[i].ToBlock
              /\ q[i].FromBlock = IF i = 1 THEN lookup.from0
                                  ELSE q[i - 1].ToBlock + 1
              /\ lookup.size # 0 =>
                    q[i].ToBlock - q[i].FromBlock + 1 <= lookup.size + 1
        /\ lookup.pc = "parse" =>
              /\ q # <<>>
              /\ q[Len(q)].ToBlock = lookup.to0
              /\ \A b \in lookup.from0 .. lookup.to0 :
                    \E i \in DOMAIN q : q[i].FromBlock <= b /\ b <= q[i].ToBlock
====
